---- MODULE Spec2Model ----
(***************************************************************************)
(* TubeInsight backend: the comment-sentiment analysis pipeline            *)
(* (services/sentiment_service.py) and the service functions it calls      *)
(* (youtube_service.py, openai_service.py, supabase_service.py).           *)
(*                                                                         *)
(* Spec    : runs of process_video_analysis, one after the other, each     *)
(*           against collaborators (video provider, language-model         *)
(*           provider, store) whose behaviour for the run is fixed when    *)
(*           the run starts.                                               *)
(* SpecFn  : the pure blocks of the services applied to inputs drawn from  *)
(*           bounded sets.                                                 *)
(* SpecTwice    : the pipeline called twice with the same arguments.       *)
(* SpecVideos, SpecComments, SpecAnalyses : get_or_create_video,           *)
(*           save_comments_batch and save_analysis_results called alone,   *)
(*           one call after the other, on the store.                      *)
(***************************************************************************)
EXTENDS Integers, Sequences, FiniteSets, TLC

VARIABLES
    pc,              \* position of the current run in process_video_analysis
    video_url,       \* argument video_url (a structured URL, see Urls)
    user_id,         \* argument user_id
    env,             \* behaviour of the collaborators during the current run
    video_id,        \* local video_id
    video_details,   \* local video_details
    yt_comments_raw, \* local yt_comments_raw
    stages,          \* stages the current run has entered, in order
    calls,           \* requests the current run has sent to a collaborator
    result,          \* what the run handed to its caller
    videos,          \* store: collection 'videos', keyed by youtube_video_id
    analyses,        \* store: collection 'analyses' (header rows)
    summaries,       \* store: collection 'analysis_category_summaries'
    comments_table,  \* store: collection 'comments', keyed by youtube_comment_id
    profiles,        \* store: collection 'profiles', the role of each id
    fn               \* SpecFn: the last function application, input and output

vars == <<pc, video_url, user_id, env, video_id, video_details, yt_comments_raw,
          stages, calls, result, videos, analyses, summaries, comments_table,
          profiles, fn>>

runVars == <<pc, video_url, user_id, env, video_id, video_details,
             yt_comments_raw, stages, calls, result>>

storeVars == <<videos, analyses, summaries, comments_table, profiles>>

\* Python's None.
NoneV == "None"

\* ---------------------------------------------------------------- bounds

\* Longest list of comments the video provider returns in the model.
MaxComments == 2

\* Longest list of classification entries the language model returns.
MaxClassified == 2

\* ------------------------------------------------------------- sequences

Range(s) == {s[i] : i \in DOMAIN s}

IsPrefix(s, t) == Len(s) <= Len(t) /\ \A i \in DOMAIN s : s[i] = t[i]

SeqsUpTo(S, n) == UNION {[1..k -> S] : k \in 0..n}

Take(s, n) == SubSeq(s, 1, IF Len(s) < n THEN Len(s) ELSE n)

RECURSIVE SumSeq(_)
SumSeq(s) == IF s = <<>> THEN 0 ELSE Head(s) + SumSeq(Tail(s))

\* Python truthiness of a string field: None and the empty string are falsy.
Truthy(v) == v # NoneV /\ v # ""

\* ------------------------------------------------- youtube_service.py: URL
\* A URL is scheme ++ sub ++ domain ++ "/" ++ route part, where the route part
\* carries one value `val` (a sequence of characters):
\*   route "watch"  : /watch?v=<val>            (pre = FALSE)
\*                    /watch?t=1&v=<val>        (pre = TRUE)
\*   route "embed"  : /embed/<val>     "v" : /v/<val>     "e" : /e/<val>
\*   route "shorts" : /shorts/<val>    "root" : /<val>
\*   route "channel": /channel/<val>
\* Characters: "a", "b" stand for characters of [a-zA-Z0-9_-], "!" for a
\* character outside that class that is no URL delimiter.
IdChars == {"a", "b"}

Rep(c, n) == [i \in 1..n |-> c]

Vals == { <<>>, Rep("a", 3), Rep("a", 11), <<"b">> \o Rep("a", 10),
          Rep("a", 12), Rep("a", 5) \o <<"!">> \o Rep("a", 5) }

Schemes == {"", "https://"}

Subs == {"", "www.", "m."}

Domains == {"youtube.com", "youtu.be", "example.com"}

Routes == {"watch", "embed", "v", "e", "shorts", "root", "channel"}

AllUrls == [scheme : Schemes, sub : Subs, domain : Domains, route : Routes,
            pre : BOOLEAN, val : Vals]

Url(scheme, sub, domain, route, pre, val) ==
    [scheme |-> scheme, sub |-> sub, domain |-> domain, route |-> route,
     pre |-> pre, val |-> val]

\* extract_video_id returns None: encoded as the empty sequence (the function
\* never returns an empty string).
NoId == <<>>

\* ([a-zA-Z0-9_-]{11}) right after the literal prefix: the first 11 characters
\* of val when they all are of the class, no match otherwise.
Group11(val) ==
    IF Len(val) >= 11 /\ \A i \in 1..11 : val[i] \in IdChars
    THEN SubSeq(val, 1, 11) ELSE NoId

\* The literal part of each pattern of `patterns`, in order, as the domain and
\* route it needs. re.search is unanchored and the scheme and "www." groups
\* are optional, so neither the scheme nor the sub-domain matters.
patterns ==
    << [domain |-> "youtube.com", route |-> "watch"],
       [domain |-> "youtu.be",    route |-> "root"],
       [domain |-> "youtube.com", route |-> "embed"],
       [domain |-> "youtube.com", route |-> "v"],
       [domain |-> "youtube.com", route |-> "e"],
       [domain |-> "youtube.com", route |-> "shorts"] >>

\* re.search(pattern, youtube_url): group(1) or NoId. "watch\?v=" needs v to be
\* the first query parameter.
PatternMatch(p, u) ==
    IF u.domain = p.domain /\ u.route = p.route /\ (p.route = "watch" => ~u.pre)
    THEN Group11(u.val) ELSE NoId

\* urlparse(youtube_url).hostname as its labels; None (here <<>>) without
\* "//", since the URL then has no netloc.
Hostname(u) == IF u.scheme = "" THEN <<>> ELSE <<u.sub, u.domain>>

\* The fallback: 'youtube.com' in hostname raises TypeError for a None
\* hostname, which the except clause swallows; otherwise the whole value of
\* the query parameter v, when the path is /watch and the value is not blank.
Fallback(u) ==
    IF Hostname(u) = <<>> THEN NoId
    ELSE IF "youtube.com" \in Range(Hostname(u)) /\ u.route = "watch"
            /\ u.val # <<>>
         THEN u.val ELSE NoId

RECURSIVE FirstMatch(_, _)
FirstMatch(ps, u) ==
    IF ps = <<>> THEN NoId
    ELSE IF PatternMatch(Head(ps), u) # NoId THEN PatternMatch(Head(ps), u)
         ELSE FirstMatch(Tail(ps), u)

extract_video_id(u) ==
    IF FirstMatch(patterns, u) # NoId THEN FirstMatch(patterns, u)
    ELSE Fallback(u)

\* --------------------------------------------- collaborators of one run
\* The URLs the runs are started with.
Urls ==
    { Url("https://", "www.", "youtube.com", "watch", FALSE, Rep("a", 11)),
      Url("", "", "youtu.be", "root", FALSE, <<"b">> \o Rep("a", 10)),
      Url("https://", "m.", "youtube.com", "watch", TRUE, Rep("a", 3)),
      Url("https://", "", "example.com", "watch", FALSE, Rep("a", 11)),
      Url("", "", "youtube.com", "watch", FALSE, Rep("a", 3)),
      Url("https://", "www.", "youtube.com", "channel", FALSE, Rep("a", 11)) }

Users == {"u1"}

\* An item of the provider's commentThreads response: the id of the top-level
\* comment and its snippet's textDisplay, either of which may be absent.
ProviderItems ==
    { [id |-> "c1", textDisplay |-> "t1"], [id |-> "c2", textDisplay |-> "t2"],
      [id |-> NoneV, textDisplay |-> "t3"], [id |-> "c3", textDisplay |-> ""] }

SENTIMENT_CATEGORIES == <<"Positive", "Neutral", "Critical", "Toxic">>

Categories == Range(SENTIMENT_CATEGORIES)

\* How the collaborators behave during one run:
\*   yt_client : app.extensions holds the video provider's client
\*   details   : videos().list(...).execute() returns an item, returns no
\*               item, or raises
\*   comments  : commentThreads().list(...).execute() returns items, raises
\*               an error whose text holds "commentsDisabled", or raises
\*               another error
\*   store     : the store serves every request, or fails the video upsert,
\*               or fails the upsert of the comments, or fails the insert of
\*               the analysis header
\*   classify  : the classification request succeeds or fails
\*   summarize_fail : the categories whose summary request fails
Envs ==
    [ yt_client : BOOLEAN,
      details : {"item", "no_items", "raise"},
      comments : {"items", "raise_disabled", "raise_other"},
      items : SeqsUpTo(ProviderItems, MaxComments),
      store : {"ok", "video_fails", "comments_fail", "analysis_fails"},
      classify : {"ok", "fails"},
      summarize_fail : SUBSET Categories ]

\* The behaviours a run is started with: `items` only matters when the
\* comment request returns.
RunEnvs == {e \in Envs : e.comments # "items" => e.items = <<>>}

\* ------------------------------------------------------ youtube_service.py
MAX_COMMENTS_TO_FETCH == 100

\* get_youtube_service raises RuntimeError when the client is not in
\* app.extensions.
get_youtube_service(e) == IF e.yt_client THEN "client" ELSE "RuntimeError"

\* The value a fetch returns and whether its request reached the provider.
\* ok = FALSE is the None return value.
NoDetails == [ok |-> FALSE, video_id |-> NoId, title |-> NoneV,
              channel_title |-> NoneV]

fetch_video_details(vid, e) ==
    IF vid = NoId THEN [ret |-> NoDetails, sent |-> FALSE]
    ELSE IF get_youtube_service(e) = "RuntimeError"
         THEN [ret |-> NoDetails, sent |-> FALSE]      \* except Exception
    ELSE IF e.details = "raise" THEN [ret |-> NoDetails, sent |-> TRUE]
    ELSE IF e.details = "no_items" THEN [ret |-> NoDetails, sent |-> TRUE]
    ELSE [ret |-> [ok |-> TRUE, video_id |-> vid, title |-> "title",
                   channel_title |-> "channel"],
          sent |-> TRUE]

\* One dictionary of comments_list from one item of the response.
CommentOfItem(item) == [id |-> item.id, text_content |-> item.textDisplay]

NoComments == [ok |-> FALSE, list |-> <<>>]

\* fetch_video_comments with every provider error taken for "comments
\* disabled".
fetch_video_comments_AnyErrorEmpty(vid, e) ==
    IF vid = NoId THEN [ret |-> NoComments, sent |-> FALSE]
    ELSE IF get_youtube_service(e) = "RuntimeError"
         THEN [ret |-> [ok |-> TRUE, list |-> <<>>], sent |-> FALSE]
    ELSE IF e.comments \in {"raise_disabled", "raise_other"}
         THEN [ret |-> [ok |-> TRUE, list |-> <<>>], sent |-> TRUE]
    ELSE [ret |-> [ok |-> TRUE,
                   list |-> [i \in 1..Len(Take(e.items, MAX_COMMENTS_TO_FETCH))
                               |-> CommentOfItem(e.items[i])]],
          sent |-> TRUE]

fetch_video_comments(vid, e) ==
    IF vid = NoId THEN [ret |-> NoComments, sent |-> FALSE]
    ELSE IF get_youtube_service(e) = "RuntimeError"
         THEN [ret |-> NoComments, sent |-> FALSE]     \* no "commentsDisabled"
    ELSE IF e.comments = "raise_disabled"
         THEN [ret |-> [ok |-> TRUE, list |-> <<>>], sent |-> TRUE]
    ELSE IF e.comments = "raise_other" THEN [ret |-> NoComments, sent |-> TRUE]
    ELSE [ret |-> [ok |-> TRUE,
                   list |-> [i \in 1..Len(Take(e.items, MAX_COMMENTS_TO_FETCH))
                               |-> CommentOfItem(e.items[i])]],
          sent |-> TRUE]

\* ----------------------------------------------------- supabase_service.py
\* def get_or_create_video(video_id, video_title, channel_title): the
\* parameters, none of which has a default.
get_or_create_video_params == <<"video_id", "video_title", "channel_title">>

\* Python binds positional arguments to parameters that have no default:
\* TypeError unless there are exactly as many arguments as parameters.
BindPositional(params, args) ==
    IF Len(args) = Len(params) THEN "bound" ELSE "TypeError"

\* ---------------------------------------------------- sentiment_service.py
StageOrder ==
    <<"ResolveId", "FetchMetadata", "FetchComments", "PersistVideoAndComments",
      "PrepareClassificationInput", "Classify", "GroupByCategory",
      "SummarizeEachCategory", "PersistAnalysis", "AssembleResponse">>

NoResult == [kind |-> "none"]

\* return {"error": msg, "status_code": code}
ErrorResult(msg, code) == [kind |-> "error", error |-> msg, status_code |-> code]

\* final_response, as far as the claims read it: sentimentBreakdown is a
\* sequence of [category, count, summary], one entry per category.
SuccessResult(total, breakdown) ==
    [kind |-> "success", totalCommentsAnalyzed |-> total,
     sentimentBreakdown |-> breakdown]

\* f"Could not generate summary for {category.lower()} comments."
CouldNotGenerateSummary(category) ==
    [text |-> "Could not generate summary for comments.", category |-> category]

\* f"No {category.lower()} comments found for this video."
NoCommentsSummary(category) ==
    [text |-> "No comments found for this video.", category |-> category]

\* An exception that leaves process_video_analysis.
Raised(exc) == [kind |-> "raised", exception |-> exc]

Call(stage, to, op) == [stage |-> stage, to |-> to, op |-> op]

\* The collaborators' behaviour while no run is in progress.
IdleEnv ==
    [yt_client |-> TRUE, details |-> "item", comments |-> "raise_disabled",
     items |-> <<>>, store |-> "ok", classify |-> "ok", summarize_fail |-> {}]

IdleUrl == Url("", "", "example.com", "root", FALSE, <<>>)

\* The profiles the store holds: two super admins and a content moderator.
InitialProfiles ==
    [id \in {"a1", "a2", "m3"} |->
        IF id = "m3" THEN "content_moderator" ELSE "super_admin"]

Init ==
    /\ pc = "idle"
    /\ video_url = IdleUrl
    /\ user_id = "u1"
    /\ env = IdleEnv
    /\ video_id = NoId
    /\ video_details = NoDetails
    /\ yt_comments_raw = NoComments
    /\ stages = <<>>
    /\ calls = <<>>
    /\ result = NoResult
    /\ videos = <<>>
    /\ analyses = <<>>
    /\ summaries = <<>>
    /\ comments_table = <<>>
    /\ profiles = InitialProfiles
    /\ fn = [name |-> "none"]

\* A caller invokes process_video_analysis(video_url, user_id).
Start ==
    /\ pc = "idle"
    /\ \E u \in Urls, w \in Users, e \in RunEnvs :
          /\ video_url' = u
          /\ user_id' = w
          /\ env' = e
    /\ pc' = "ResolveId"
    /\ UNCHANGED <<video_id, video_details, yt_comments_raw, stages, calls,
                   result, storeVars, fn>>

\* The caller has taken what the run handed back; the frame is gone.
Return ==
    /\ pc = "done"
    /\ pc' = "idle"
    /\ video_url' = IdleUrl
    /\ user_id' = "u1"
    /\ env' = IdleEnv
    /\ video_id' = NoId
    /\ video_details' = NoDetails
    /\ yt_comments_raw' = NoComments
    /\ stages' = <<>>
    /\ calls' = <<>>
    /\ result' = NoResult
    /\ UNCHANGED <<storeVars, fn>>

\* ResolveId without the early return for a missing id.
ResolveId_NoReturn ==
    /\ pc = "ResolveId"
    /\ stages' = Append(stages, "ResolveId")
    /\ video_id' = extract_video_id(video_url)
    /\ result' = result
    /\ pc' = "FetchMetadata"
    /\ UNCHANGED <<video_url, user_id, env, video_details, yt_comments_raw,
                   calls, storeVars, fn>>

\* 1. Extract Video ID.
ResolveId ==
    /\ pc = "ResolveId"
    /\ stages' = Append(stages, "ResolveId")
    /\ video_id' = extract_video_id(video_url)
    /\ IF video_id' = NoId
       THEN /\ result' = ErrorResult("Invalid YouTube video URL provided.", 400)
            /\ pc' = "done"
       ELSE /\ result' = result
            /\ pc' = "FetchMetadata"
    /\ UNCHANGED <<video_url, user_id, env, video_details, yt_comments_raw,
                   calls, storeVars, fn>>

\* FetchMetadata that records the failure and goes on to the next stage.
FetchMetadata_NoReturn ==
    /\ pc = "FetchMetadata"
    /\ stages' = Append(stages, "FetchMetadata")
    /\ LET r == fetch_video_details(video_id, env) IN
          /\ video_details' = r.ret
          /\ calls' = IF r.sent
                      THEN Append(calls, Call("FetchMetadata", "youtube", "videos.list"))
                      ELSE calls
          /\ result' = IF ~r.ret.ok
                       THEN ErrorResult("Could not fetch video details from YouTube.", 502)
                       ELSE result
          /\ pc' = "FetchComments"
    /\ UNCHANGED <<video_url, user_id, env, video_id, yt_comments_raw,
                   storeVars, fn>>

\* 2. Fetch video details.
FetchMetadata ==
    /\ pc = "FetchMetadata"
    /\ stages' = Append(stages, "FetchMetadata")
    /\ LET r == fetch_video_details(video_id, env) IN
          /\ video_details' = r.ret
          /\ calls' = IF r.sent
                      THEN Append(calls, Call("FetchMetadata", "youtube", "videos.list"))
                      ELSE calls
          /\ IF ~r.ret.ok
             THEN /\ result' = ErrorResult("Could not fetch video details from YouTube.", 502)
                  /\ pc' = "done"
             ELSE /\ result' = result
                  /\ pc' = "FetchComments"
    /\ UNCHANGED <<video_url, user_id, env, video_id, yt_comments_raw,
                   storeVars, fn>>

\* 2. Fetch comments: None is an error, [] means comments disabled or none.
FetchComments ==
    /\ pc = "FetchComments"
    /\ stages' = Append(stages, "FetchComments")
    /\ LET r == fetch_video_comments(video_id, env) IN
          /\ yt_comments_raw' = r.ret
          /\ calls' = IF r.sent
                      THEN Append(calls, Call("FetchComments", "youtube", "commentThreads.list"))
                      ELSE calls
          /\ IF ~r.ret.ok
             THEN /\ result' = ErrorResult("Could not fetch comments from YouTube.", 502)
                  /\ pc' = "done"
             ELSE /\ result' = result
                  /\ pc' = "PersistVideoAndComments"
    /\ UNCHANGED <<video_url, user_id, env, video_id, video_details,
                   storeVars, fn>>

\* 3. supabase_service.get_or_create_video(video_id, title, channel_title,
\* thumbnail url): four positional arguments for three parameters. The call
\* raises TypeError before the body of get_or_create_video runs, nothing in
\* process_video_analysis catches it, and the run ends there.
PersistVideoAndComments ==
    /\ pc = "PersistVideoAndComments"
    /\ stages' = Append(stages, "PersistVideoAndComments")
    /\ LET args == <<video_id, video_details.title, video_details.channel_title,
                     NoneV>>
       IN  /\ BindPositional(get_or_create_video_params, args) = "TypeError"
           /\ result' = Raised("TypeError")
           /\ pc' = "done"
    /\ UNCHANGED <<video_url, user_id, env, video_id, video_details,
                   yt_comments_raw, calls, storeVars, fn>>

\* ------------------------- sentiment_service.py: classification input, groups
\* A dictionary of yt_comments_raw.
Comments == {CommentOfItem(item) : item \in ProviderItems}

\* The filter reading the id alone.
IsClassifiable_IdOnly(c) == Truthy(c.id)

\* if c.get('id') and c.get('text_content')
IsClassifiable(c) == Truthy(c.id) /\ Truthy(c.text_content)

\* comments_for_openai
CommentsForOpenAI(raw) == SelectSeq(raw, IsClassifiable)

\* The key 'category' is absent from a classification entry.
Absent == "<absent>"

\* The entries a language model may return: the id of a comment of the batch,
\* an id that is not in the batch ("zz"), or none; one of the categories, a
\* value outside them ("Mixed"), or no category.
ClassifiedEntries ==
    [id : {"c1", "c2", "zz", NoneV}, category : {"Positive", "Toxic", "Mixed", Absent}]

\* The category as the classifier gave it, not coerced.
EffectiveCategory_AsReturned(x) == x.category

\* category = classification.get('category', 'Neutral'), then 'Neutral' for a
\* value that is not in SENTIMENT_CATEGORIES.
EffectiveCategory(x) ==
    LET category == IF x.category = Absent THEN "Neutral" ELSE x.category
    IN  IF category \notin Categories THEN "Neutral" ELSE category

\* comment_id in comment_text_lookup
InLookup(cfo, comment_id) == \E i \in DOMAIN cfo : cfo[i].id = comment_id

RECURSIVE GroupInto(_, _, _)
\* The ids appended to comments_by_category[cat] by the loop over
\* classified_sentiments.
GroupInto(cat, cfo, classified) ==
    IF classified = <<>> THEN <<>>
    ELSE LET x == Head(classified)
             rest == GroupInto(cat, cfo, Tail(classified))
         IN  IF EffectiveCategory(x) = cat /\ Truthy(x.id) /\ InLookup(cfo, x.id)
             THEN <<x.id>> \o rest ELSE rest

\* comments_by_category, read with .get(category, []).
GroupByCategory(cfo, classified) ==
    [cat \in Categories |-> GroupInto(cat, cfo, classified)]

\* The classifier is asked only for a non-empty batch; classified_sentiments
\* stays [] otherwise.
ClassifiedSentiments(cfo, returned) == IF cfo = <<>> THEN <<>> ELSE returned

\* "count" of each entry of sentiment_breakdown_for_db, in the order of
\* SENTIMENT_CATEGORIES.
BreakdownCounts(cfo, classified) ==
    [i \in DOMAIN SENTIMENT_CATEGORIES |->
        Len(GroupByCategory(cfo, classified)[SENTIMENT_CATEGORIES[i]])]

\* ------------------------------------- openai_service.py: category summary
MaxGroup == 2

\* comments_texts[:50]
SummaryPromptComments == 50

\* current_app.extensions.get('openai'), or RuntimeError
get_openai_client(client) == IF client THEN "client" ELSE "RuntimeError"

\* What one chat-completion request for a summary may come to: a text, an
\* empty content, no content, or an exception of the client library.
SummaryAnswers == {"text", "empty", "null", "raise"}

\* f"No {category_name.lower()} comments to summarize."
NoCommentsToSummarize(category_name) ==
    [text |-> "No comments to summarize.", category |-> category_name]

\* The summary the model wrote, stripped.
ModelSummary(category_name) == [text |-> "summary", category |-> category_name]

EmptySummary(category_name) == [text |-> "", category |-> category_name]

\* return None
NoSummary == [text |-> NoneV, category |-> NoneV]

\* The request sent again after a failed one.
summarize_comments_by_category_Retry(category_name, comments_texts, client, answer) ==
    IF comments_texts = <<>>
    THEN [raised |-> FALSE, summary |-> NoCommentsToSummarize(category_name),
          requests |-> <<>>]
    ELSE LET request == [category |-> category_name,
                         comments |-> Take(comments_texts, SummaryPromptComments)]
         IN  [raised |-> FALSE,
              summary |-> IF answer = "text" THEN ModelSummary(category_name)
                          ELSE NoSummary,
              requests |-> IF answer = "text" THEN <<request>>
                           ELSE <<request, request>>]

\* summarize_comments_by_category(category_name, comments_texts): what it
\* hands back, the requests it sent, and whether RuntimeError left it.
summarize_comments_by_category(category_name, comments_texts, client, answer) ==
    IF comments_texts = <<>>
    THEN [raised |-> FALSE, summary |-> NoCommentsToSummarize(category_name),
          requests |-> <<>>]
    ELSE IF get_openai_client(client) = "RuntimeError"
    THEN [raised |-> TRUE, summary |-> NoSummary, requests |-> <<>>]
    ELSE LET request == [category |-> category_name,
                         comments |-> Take(comments_texts, SummaryPromptComments)]
             summary == CASE answer = "text" -> ModelSummary(category_name)
                          [] answer = "empty" -> EmptySummary(category_name)
                          [] OTHER -> NoSummary
         IN  [raised |-> FALSE, summary |-> summary, requests |-> <<request>>]

\* ---------------------------------- openai_service.py: batch classification
\* What the chat-completion request for the classification may come to: an
\* exception of the client library, an empty content, a content that is not
\* JSON, or a JSON value: an object whose key 'result' or 'classifications'
\* holds a list, an object whose key 'result' holds something else, an object
\* with neither key, or a list at the root.
ClassifyAnswers ==
    {"raise", "empty_content", "not_json", "result", "classifications",
     "result_not_list", "other_object", "root_list"}

\* Lists a language model may put in its answer.
AnswerLists == {<<>>, <<[id |-> "c1", category |-> "Positive"]>>}

\* return None
NoClassification == [ok |-> FALSE, list |-> <<>>]

\* comments_for_prompt
CommentsForPrompt(comments) == SelectSeq(comments, IsClassifiable)

\* classify_comment_sentiments_batch(comments): what it hands back, how many
\* requests it sent, and whether RuntimeError left it.  response_json.get
\* on a list raises AttributeError, which the except clause turns into None.
classify_comment_sentiments_batch(comments, client, answer, list) ==
    IF comments = <<>>
    THEN [raised |-> FALSE, ret |-> [ok |-> TRUE, list |-> <<>>], requests |-> 0]
    ELSE IF get_openai_client(client) = "RuntimeError"
    THEN [raised |-> TRUE, ret |-> NoClassification, requests |-> 0]
    ELSE IF CommentsForPrompt(comments) = <<>>
    THEN [raised |-> FALSE, ret |-> [ok |-> TRUE, list |-> <<>>], requests |-> 0]
    ELSE [raised |-> FALSE,
          ret |-> IF answer \in {"result", "classifications"}
                  THEN [ok |-> TRUE, list |-> list]
                  ELSE NoClassification,
          requests |-> 1]

\* ------------------------------- sentiment_service.py: summaries per category
\* comment_text_lookup[comment_id], for the comments of ProviderItems.
TextOf(comment_id) == IF comment_id = "c1" THEN "t1" ELSE "t2"

\* comment_texts_by_category[category], appended to together with
\* comments_by_category[category].
TextsOf(ids) == [i \in DOMAIN ids |-> TextOf(ids[i])]

RECURSIVE SummarizeEach(_, _, _, _)
\* The loop over SENTIMENT_CATEGORIES that builds sentiment_breakdown_for_db.
SummarizeEach(cats, by_category, client, answers) ==
    IF cats = <<>>
    THEN [raised |-> FALSE, breakdown |-> <<>>, requests |-> <<>>]
    ELSE LET category == Head(cats)
             texts == TextsOf(by_category[category])
             r == IF texts # <<>>
                  THEN summarize_comments_by_category(category, texts, client,
                                                      answers[category])
                  ELSE [raised |-> FALSE, summary |-> NoCommentsSummary(category),
                        requests |-> <<>>]
             summary_text == IF r.summary = NoSummary
                             THEN CouldNotGenerateSummary(category)
                             ELSE r.summary
             entry == [category |-> category,
                       count |-> Len(by_category[category]),
                       summary |-> summary_text]
             rest == SummarizeEach(Tail(cats), by_category, client, answers)
         IN  IF r.raised
             THEN [raised |-> TRUE, breakdown |-> <<>>, requests |-> r.requests]
             ELSE [raised |-> rest.raised,
                   breakdown |-> <<entry>> \o rest.breakdown,
                   requests |-> r.requests \o rest.requests]

\* The loop run over the categories that hold a grouped comment only.
sentiment_breakdown_for_db_ProducedOnly(by_category, client, answers) ==
    SummarizeEach(SelectSeq(SENTIMENT_CATEGORIES,
                            LAMBDA cat : by_category[cat] # <<>>),
                  by_category, client, answers)

\* for category in SENTIMENT_CATEGORIES: ... sentiment_breakdown_for_db.append
sentiment_breakdown_for_db(by_category, client, answers) ==
    SummarizeEach(SENTIMENT_CATEGORIES, by_category, client, answers)

\* -------------------------------------------- SpecFn: blocks applied alone
\* Lines 74-128 of process_video_analysis as a function of the fetched
\* comments and of the list the classifier returned.
FnCallGroup ==
    /\ fn.name = "none"
    /\ \E raw \in SeqsUpTo(Comments, MaxComments),
          returned \in SeqsUpTo(ClassifiedEntries, MaxClassified) :
          fn' = [name |-> "group_call", raw |-> raw, returned |-> returned]
    /\ UNCHANGED <<runVars, storeVars>>

FnRunGroup ==
    /\ fn.name = "group_call"
    /\ LET cfo == CommentsForOpenAI(fn.raw)
           classified == ClassifiedSentiments(cfo, fn.returned)
       IN  fn' = [name |-> "group_ret", raw |-> fn.raw, returned |-> fn.returned,
                  comments_for_openai |-> cfo,
                  total_comments_for_analysis |-> Len(cfo),
                  counts |-> BreakdownCounts(cfo, classified)]
    /\ UNCHANGED <<runVars, storeVars>>

\* Lines 111-128 of process_video_analysis as a function of the groups and of
\* what the summarizer's provider answers for each category.  A run that has
\* grouped a comment has had its classifier request answered, so the client
\* is there.
FnCallSummaries ==
    /\ fn.name = "none"
    /\ \E by_category \in [Categories -> SeqsUpTo({"c1"}, MaxGroup)],
          client \in BOOLEAN, answers \in [Categories -> SummaryAnswers] :
          /\ (\E cat \in Categories : by_category[cat] # <<>>) => client
          /\ fn' = [name |-> "summaries_call", by_category |-> by_category,
                    client |-> client, answers |-> answers]
    /\ UNCHANGED <<runVars, storeVars>>

FnRunSummaries ==
    /\ fn.name = "summaries_call"
    /\ LET r == sentiment_breakdown_for_db(fn.by_category, fn.client, fn.answers)
       IN  fn' = [name |-> "summaries_ret", by_category |-> fn.by_category,
                  client |-> fn.client, answers |-> fn.answers,
                  raised |-> r.raised,
                  sentiment_breakdown_for_db |-> r.breakdown,
                  requests |-> r.requests]
    /\ UNCHANGED <<runVars, storeVars>>

\* A caller invokes classify_comment_sentiments_batch(comments).
FnCallClassify ==
    /\ fn.name = "none"
    /\ \E comments \in SeqsUpTo(Comments, MaxComments), client \in BOOLEAN,
          answer \in ClassifyAnswers, list \in AnswerLists :
          fn' = [name |-> "classify_call", comments |-> comments,
                 client |-> client, answer |-> answer, list |-> list]
    /\ UNCHANGED <<runVars, storeVars>>

FnRunClassify ==
    /\ fn.name = "classify_call"
    /\ LET r == classify_comment_sentiments_batch(fn.comments, fn.client,
                                                  fn.answer, fn.list)
       IN  fn' = [name |-> "classify_ret", comments |-> fn.comments,
                  client |-> fn.client, answer |-> fn.answer, list |-> fn.list,
                  raised |-> r.raised, ret |-> r.ret, requests |-> r.requests]
    /\ UNCHANGED <<runVars, storeVars>>

\* A caller invokes extract_video_id(youtube_url).
FnCallExtract ==
    /\ fn.name = "none"
    /\ \E u \in AllUrls : fn' = [name |-> "extract_call", youtube_url |-> u]
    /\ UNCHANGED <<runVars, storeVars>>

FnRunExtract ==
    /\ fn.name = "extract_call"
    /\ fn' = [name |-> "extract_ret", youtube_url |-> fn.youtube_url,
              ret |-> extract_video_id(fn.youtube_url)]
    /\ UNCHANGED <<runVars, storeVars>>

\* The frames in which a function has handed back its value.
FnReturned ==
    {"group_ret", "summaries_ret", "classify_ret", "save_analysis_ret",
     "video_ret", "save_comments_ret",
     "detail_ret", "extract_ret", "by_date_ret", "response_ret"}

FnReturn ==
    /\ fn.name \in FnReturned
    /\ fn' = [name |-> "none"]
    /\ UNCHANGED <<runVars, storeVars>>

NextFn ==
    \/ FnCallGroup
    \/ FnRunGroup
    \/ FnCallSummaries
    \/ FnRunSummaries
    \/ FnCallClassify
    \/ FnRunClassify
    \/ FnCallExtract
    \/ FnRunExtract
    \/ FnReturn

SpecFn == Init /\ [][NextFn]_vars

\* ------------------------- supabase_service.py: save_analysis_results alone
MaxAnalyses == 2

\* The external ids of the videos the store functions are called for.
StoreVideoIds == {Rep("a", 11), <<"b">> \o Rep("a", 10)}

\* current_app.extensions.get('supabase'), or RuntimeError
get_supabase_client(client) == IF client THEN "client" ELSE "RuntimeError"

\* Groups a run may have built: no comment at all, or one Toxic comment.
SampleGroups ==
    {[cat \in Categories |-> <<>>],
     [cat \in Categories |-> IF cat = "Toxic" THEN <<"c1">> ELSE <<>>]}

\* The users that own analyses.
StoreUsers == {"u1", "u2"}

\* What the store may do with an insert: take it, answer without data or
\* with an error attribute, or make the client library raise.
HeaderInserts == {"ok", "no_data", "raise"}

SummaryInserts == {"ok", "error", "raise"}

\* datetime.now(timezone.utc).isoformat() at two different calls.
Timestamps == {"T1", "T2"}

\* The readings the clock can give once it has given t: T1 is before T2.
NotBefore(t) == IF t = "T1" THEN Timestamps ELSE {"T2"}

\* The readings the clock can give at a new call: none before the
\* analysis_timestamp of the newest header row.
ClockNow ==
    IF analyses = <<>> THEN Timestamps
    ELSE NotBefore(analyses[Len(analyses)].analysis_timestamp)

\* summaries_to_save
SummariesToSave(analysis_id, sentiment_breakdown) ==
    [i \in DOMAIN sentiment_breakdown |->
        [analysis_id |-> analysis_id,
         category_name |-> sentiment_breakdown[i].category,
         comment_count_in_category |-> sentiment_breakdown[i].count,
         summary_text |-> sentiment_breakdown[i].summary]]

\* return None
NoAnalysisId == 0

\* The frame of save_analysis_results at a later line: its arguments, what
\* the store is set to do, and analysis_id.
SaveAnalysisFrame(name, analysis_id, raised) ==
    [name |-> name, analysis_id |-> analysis_id, raised |-> raised,
     user_id |-> fn.user_id, video_id |-> fn.video_id,
     total_comments_analyzed |-> fn.total_comments_analyzed,
     sentiment_breakdown |-> fn.sentiment_breakdown,
     client |-> fn.client, header |-> fn.header, summary |-> fn.summary,
     analysis_timestamp |-> fn.analysis_timestamp,
     analyses_at_call |-> fn.analyses_at_call]

\* A caller invokes save_analysis_results(user_id, video_id, total,
\* sentiment_breakdown) with the breakdown lines 111-128 build.
SaveAnalysisCall ==
    /\ fn.name = "none"
    /\ Len(analyses) < MaxAnalyses
    /\ \E w \in StoreUsers, vid \in {Rep("a", 11)}, g \in SampleGroups,
          client \in BOOLEAN, h \in HeaderInserts, sm \in SummaryInserts,
          now \in ClockNow :
          LET breakdown == sentiment_breakdown_for_db(g, TRUE,
                               [cat \in Categories |-> "text"]).breakdown
          IN  fn' = [name |-> "save_analysis_call", analysis_id |-> NoAnalysisId,
                     raised |-> FALSE, user_id |-> w, video_id |-> vid,
                     total_comments_analyzed |->
                         SumSeq([i \in DOMAIN breakdown |-> breakdown[i].count]),
                     sentiment_breakdown |-> breakdown,
                     client |-> client, header |-> h, summary |-> sm,
                     analysis_timestamp |-> now,
                     analyses_at_call |-> Len(analyses)]
    /\ UNCHANGED <<runVars, storeVars>>

\* Lines 154-170: the client, then the header row.
SaveAnalysisInsertHeader ==
    /\ fn.name = "save_analysis_call"
    /\ IF get_supabase_client(fn.client) = "RuntimeError"
       THEN /\ fn' = SaveAnalysisFrame("save_analysis_ret", NoAnalysisId, TRUE)
            /\ UNCHANGED analyses
       ELSE IF fn.header # "ok"
       THEN /\ fn' = SaveAnalysisFrame("save_analysis_ret", NoAnalysisId, FALSE)
            /\ UNCHANGED analyses
       ELSE LET analysis_id == Len(analyses) + 1
            IN  /\ analyses' = Append(analyses,
                        [analysis_id |-> analysis_id, user_id |-> fn.user_id,
                         youtube_video_id |-> fn.video_id,
                         analysis_timestamp |-> fn.analysis_timestamp,
                         total_comments_analyzed |-> fn.total_comments_analyzed])
                /\ fn' = SaveAnalysisFrame("save_analysis_header", analysis_id,
                                           FALSE)
    /\ UNCHANGED <<runVars, videos, summaries, comments_table, profiles>>

\* The header row taken back, and None handed over, when the insert of the
\* summary rows is not taken.
SaveAnalysisInsertSummaries_RollsBack ==
    /\ fn.name = "save_analysis_header"
    /\ IF fn.summary = "ok"
       THEN /\ fn' = SaveAnalysisFrame("save_analysis_ret", fn.analysis_id, FALSE)
            /\ summaries' = summaries
                   \o SummariesToSave(fn.analysis_id, fn.sentiment_breakdown)
            /\ UNCHANGED analyses
       ELSE /\ fn' = SaveAnalysisFrame("save_analysis_ret", NoAnalysisId, FALSE)
            /\ analyses' = SubSeq(analyses, 1, Len(analyses) - 1)
            /\ UNCHANGED summaries
    /\ UNCHANGED <<runVars, videos, comments_table, profiles>>

\* Lines 172-197: the summary rows, in one insert; an error the response
\* carries is logged, an exception makes the function return None.
SaveAnalysisInsertSummaries ==
    /\ fn.name = "save_analysis_header"
    /\ LET summaries_to_save ==
               SummariesToSave(fn.analysis_id, fn.sentiment_breakdown)
       IN  IF summaries_to_save = <<>>
           THEN /\ fn' = SaveAnalysisFrame("save_analysis_ret", fn.analysis_id,
                                           FALSE)
                /\ UNCHANGED summaries
           ELSE IF fn.summary = "raise"
           THEN /\ fn' = SaveAnalysisFrame("save_analysis_ret", NoAnalysisId,
                                           FALSE)
                /\ UNCHANGED summaries
           ELSE /\ fn' = SaveAnalysisFrame("save_analysis_ret", fn.analysis_id,
                                           FALSE)
                /\ summaries' = IF fn.summary = "ok"
                                THEN summaries \o summaries_to_save
                                ELSE summaries
    /\ UNCHANGED <<runVars, videos, analyses, comments_table, profiles>>

\* sentiment_service.py lines 139-162, after save_analysis_results has handed
\* back an analysis_id: the comments by date, which are the empty list, and
\* final_response with a reading of the clock taken now.
FinalResponse ==
    /\ fn.name = "save_analysis_ret"
    /\ fn.analysis_id # NoAnalysisId
    /\ \E now \in NotBefore(fn.analysis_timestamp) :
          fn' = [name |-> "response_ret",
                 summary |-> fn.summary,
                 final_response |->
                     [analysisId |-> fn.analysis_id,
                      videoId |-> fn.video_id,
                      analysisTimestamp |-> now,
                      totalCommentsAnalyzed |-> fn.total_comments_analyzed,
                      sentimentBreakdown |-> fn.sentiment_breakdown,
                      commentsByDate |-> <<>>]]
    /\ UNCHANGED <<runVars, storeVars>>

\* What the store may do with the select of the detail lookup.
DetailSelects == {"ok", "error", "raise"}

\* return None
NoDetail == [ok |-> FALSE, analysis |-> <<>>, analysis_category_summaries |-> <<>>]

\* The rows of 'analyses' that pass .eq('analysis_id', aid).eq('user_id', uid).
DetailRows(aid, uid) ==
    SelectSeq(analyses,
              LAMBDA row : row.analysis_id = aid /\ row.user_id = uid)

\* The lookup without .eq('user_id', user_id).
get_analysis_detail_by_id_AnyOwner(aid, uid, client, select) ==
    LET rows == SelectSeq(analyses, LAMBDA row : row.analysis_id = aid)
    IN  IF get_supabase_client(client) = "RuntimeError"
        THEN [raised |-> TRUE, ret |-> NoDetail]
        ELSE IF select # "ok" \/ rows = <<>>
        THEN [raised |-> FALSE, ret |-> NoDetail]
        ELSE [raised |-> FALSE,
              ret |-> [ok |-> TRUE, analysis |-> <<rows[1]>>,
                       analysis_category_summaries |->
                           SelectSeq(summaries,
                                     LAMBDA r : r.analysis_id = aid)]]

\* get_analysis_detail_by_id(analysis_id, user_id): the row with its summary
\* rows, or None; RuntimeError leaves it when there is no client.
get_analysis_detail_by_id(aid, uid, client, select) ==
    IF get_supabase_client(client) = "RuntimeError"
    THEN [raised |-> TRUE, ret |-> NoDetail]
    ELSE IF select # "ok" \/ DetailRows(aid, uid) = <<>>
    THEN [raised |-> FALSE, ret |-> NoDetail]
    ELSE [raised |-> FALSE,
          ret |-> [ok |-> TRUE, analysis |-> <<DetailRows(aid, uid)[1]>>,
                   analysis_category_summaries |->
                       SelectSeq(summaries, LAMBDA r : r.analysis_id = aid)]]

\* A caller invokes get_analysis_detail_by_id with the identifier of a stored
\* analysis or with one that no analysis has.
GetAnalysisDetailCall ==
    /\ fn.name = "none"
    /\ \E aid \in 1..(MaxAnalyses + 1), w \in StoreUsers, client \in BOOLEAN,
          sel \in DetailSelects :
          fn' = [name |-> "detail_call", analysis_id |-> aid, user_id |-> w,
                 client |-> client, select |-> sel]
    /\ UNCHANGED <<runVars, storeVars>>

GetAnalysisDetailRun ==
    /\ fn.name = "detail_call"
    /\ LET r == get_analysis_detail_by_id(fn.analysis_id, fn.user_id, fn.client,
                                          fn.select)
       IN  fn' = [name |-> "detail_ret", analysis_id |-> fn.analysis_id,
                  user_id |-> fn.user_id, client |-> fn.client,
                  select |-> fn.select, raised |-> r.raised, ret |-> r.ret]
    /\ UNCHANGED <<runVars, storeVars>>

NextAnalyses ==
    \/ SaveAnalysisCall
    \/ SaveAnalysisInsertHeader
    \/ SaveAnalysisInsertSummaries
    \/ FinalResponse
    \/ GetAnalysisDetailCall
    \/ GetAnalysisDetailRun
    \/ FnReturn

SpecAnalyses == Init /\ [][NextAnalyses]_vars

\* --------------------------- supabase_service.py: get_or_create_video alone
\* Values of the arguments video_title and channel_title.
Titles == {"A", "B", NoneV}

ChannelTitles == {"C", NoneV}

\* What the store may do with the select, and with the update or insert.
VideoSelects == {"ok", "raise"}

VideoWrites == {"ok", "no_data", "raise"}

\* return None, and response.data of a select that found no row.
NoVideo ==
    [ok |-> FALSE, youtube_video_id |-> NoId, video_title |-> NoneV,
     channel_title |-> NoneV, last_cached_comment_retrieval_timestamp |-> NoneV,
     created_at |-> NoneV, updated_at |-> NoneV]

\* x or y
Or(x, y) == IF Truthy(x) THEN x ELSE y

\* The update written with the arguments as they came.
update_data_Clobber(existing, video_title, channel_title, current_timestamp) ==
    [existing EXCEPT !.video_title = video_title,
                     !.channel_title = channel_title,
                     !.last_cached_comment_retrieval_timestamp = current_timestamp,
                     !.updated_at = current_timestamp]

\* The row after update_data is applied to it.
update_data(existing, video_title, channel_title, current_timestamp) ==
    [existing EXCEPT !.video_title = Or(video_title, existing.video_title),
                     !.channel_title = Or(channel_title, existing.channel_title),
                     !.last_cached_comment_retrieval_timestamp = current_timestamp,
                     !.updated_at = current_timestamp]

insert_data(vid, video_title, channel_title, current_timestamp) ==
    [ok |-> TRUE, youtube_video_id |-> vid, video_title |-> video_title,
     channel_title |-> channel_title,
     last_cached_comment_retrieval_timestamp |-> current_timestamp,
     created_at |-> current_timestamp, updated_at |-> current_timestamp]

\* The frame of get_or_create_video at a later line.
VideoFrame(name, existing, ret, raised) ==
    [name |-> name, existing |-> existing, ret |-> ret, raised |-> raised,
     video_id |-> fn.video_id, video_title |-> fn.video_title,
     channel_title |-> fn.channel_title,
     current_timestamp |-> fn.current_timestamp, client |-> fn.client,
     select |-> fn.select, write |-> fn.write]

\* A caller invokes get_or_create_video(video_id, video_title, channel_title).
GetOrCreateVideoCall ==
    /\ fn.name = "none"
    /\ \E vid \in StoreVideoIds, t \in Titles, c \in ChannelTitles,
          now \in Timestamps, client \in BOOLEAN, sel \in VideoSelects,
          w \in VideoWrites :
          fn' = [name |-> "video_call", existing |-> NoVideo, ret |-> NoVideo,
                 raised |-> FALSE, video_id |-> vid, video_title |-> t,
                 channel_title |-> c, current_timestamp |-> now,
                 client |-> client, select |-> sel, write |-> w]
    /\ UNCHANGED <<runVars, storeVars>>

\* Lines 32-37: the client, then the select by youtube_video_id.
GetOrCreateVideoSelect ==
    /\ fn.name = "video_call"
    /\ fn' = IF get_supabase_client(fn.client) = "RuntimeError"
             THEN VideoFrame("video_ret", NoVideo, NoVideo, TRUE)
             ELSE IF fn.select = "raise"
             THEN VideoFrame("video_ret", NoVideo, NoVideo, FALSE)
             ELSE IF fn.video_id \in DOMAIN videos
             THEN VideoFrame("video_selected", videos[fn.video_id], NoVideo, FALSE)
             ELSE VideoFrame("video_selected", NoVideo, NoVideo, FALSE)
    /\ UNCHANGED <<runVars, storeVars>>

\* Lines 39-74: the update of the row that was found, or the insert.
GetOrCreateVideoWrite ==
    /\ fn.name = "video_selected"
    /\ LET row == IF fn.existing.ok
                  THEN update_data(fn.existing, fn.video_title, fn.channel_title,
                                   fn.current_timestamp)
                  ELSE insert_data(fn.video_id, fn.video_title, fn.channel_title,
                                   fn.current_timestamp)
       IN  IF fn.write = "ok"
           THEN /\ videos' = [v \in DOMAIN videos \cup {fn.video_id} |->
                                 IF v = fn.video_id THEN row ELSE videos[v]]
                /\ fn' = VideoFrame("video_ret", fn.existing, row, FALSE)
           ELSE /\ UNCHANGED videos
                /\ fn' = VideoFrame("video_ret", fn.existing,
                                    IF fn.write = "no_data" THEN fn.existing
                                    ELSE NoVideo,
                                    FALSE)
    /\ UNCHANGED <<runVars, analyses, summaries, comments_table, profiles>>

NextVideos ==
    \/ GetOrCreateVideoCall
    \/ GetOrCreateVideoSelect
    \/ GetOrCreateVideoWrite
    \/ FnReturn

SpecVideos == Init /\ [][NextVideos]_vars

Next ==
    \/ Start
    \/ ResolveId
    \/ FetchMetadata
    \/ FetchComments
    \/ PersistVideoAndComments
    \/ Return

Spec == Init /\ [][Next]_vars

\* ------------- supabase_service.py: two interleaved get_or_create_video calls
\* The two runs whose calls interleave.
Runs == {"r1", "r2"}

\* The collection 'videos' has youtube_video_id as its key: the store refuses
\* the insert of a row whose youtube_video_id a stored row has, and the
\* client library raises.
InsertRefused(vid) == vid \in DOMAIN videos

\* Two runs call get_or_create_video for the same video, which the store
\* has not seen; the store answers every request.
RaceCall ==
    /\ fn.name = "none"
    /\ \E vid \in StoreVideoIds \ DOMAIN videos,
          t \in [Runs -> Titles], now \in [Runs -> Timestamps] :
          fn' = [name |-> "race", video_id |-> vid,
                 frames |-> [r \in Runs |->
                     [at |-> "select", video_title |-> t[r],
                      channel_title |-> "C", current_timestamp |-> now[r],
                      existing |-> NoVideo, ret |-> NoVideo]]]
    /\ UNCHANGED <<runVars, storeVars>>

\* Line 35, by one of the runs.
RaceSelect(r) ==
    /\ fn.name = "race"
    /\ fn.frames[r].at = "select"
    /\ fn' = [fn EXCEPT !.frames[r].at = "write",
                        !.frames[r].existing =
                            IF fn.video_id \in DOMAIN videos
                            THEN videos[fn.video_id] ELSE NoVideo]
    /\ UNCHANGED <<runVars, storeVars>>

\* Lines 39-74, by one of the runs: the update of the row it found, or the
\* insert, which ends in the except clause when the store refuses it.
RaceWrite(r) ==
    /\ fn.name = "race"
    /\ fn.frames[r].at = "write"
    /\ LET f == fn.frames[r]
           row == IF f.existing.ok
                  THEN update_data(f.existing, f.video_title, f.channel_title,
                                   f.current_timestamp)
                  ELSE insert_data(fn.video_id, f.video_title, f.channel_title,
                                   f.current_timestamp)
       IN  IF ~f.existing.ok /\ InsertRefused(fn.video_id)
           THEN /\ UNCHANGED videos
                /\ fn' = [fn EXCEPT !.frames[r].at = "ret",
                                    !.frames[r].ret = NoVideo]
           ELSE /\ videos' = [v \in DOMAIN videos \cup {fn.video_id} |->
                                 IF v = fn.video_id THEN row ELSE videos[v]]
                /\ fn' = [fn EXCEPT !.frames[r].at = "ret",
                                    !.frames[r].ret = row]
    /\ UNCHANGED <<runVars, analyses, summaries, comments_table, profiles>>

\* Both calls have handed back their value.
RaceReturn ==
    /\ fn.name = "race"
    /\ \A r \in Runs : fn.frames[r].at = "ret"
    /\ fn' = [name |-> "none"]
    /\ UNCHANGED <<runVars, storeVars>>

NextRace ==
    \/ RaceCall
    \/ \E r \in Runs : RaceSelect(r)
    \/ \E r \in Runs : RaceWrite(r)
    \/ RaceReturn

SpecRace == Init /\ [][NextRace]_vars

\* ----------------------- admin_routes.py: interleaved update_user_role_route
\* class UserRole
UserRole == {"user", "analyst", "content_moderator", "super_admin"}

ROLE_HIERARCHY ==
    [role \in UserRole |->
        CASE role = "user" -> 0
          [] role = "analyst" -> 1
          [] role = "content_moderator" -> 2
          [] role = "super_admin" -> 3]

\* ROLE_HIERARCHY.get(role, 0)
RoleLevel(role) == IF role \in UserRole THEN ROLE_HIERARCHY[role] ELSE 0

AnalysisPermissions ==
    {"view_analyses", "create_analyses", "edit_analyses", "delete_analyses"}

ROLE_PERMISSIONS ==
    [role \in UserRole |->
        CASE role = "user" -> AnalysisPermissions
          [] role = "analyst" ->
                AnalysisPermissions \cup {"view_analytics", "view_api_usage"}
          [] role = "content_moderator" ->
                AnalysisPermissions
                    \cup {"view_analytics", "view_api_usage", "view_users",
                          "modify_user_status", "moderate_content"}
          [] role = "super_admin" ->
                AnalysisPermissions
                    \cup {"view_analytics", "view_api_usage", "view_users",
                          "modify_user_role", "modify_user_status",
                          "view_system_health", "moderate_content"}]

\* ROLE_PERMISSIONS.get(role, set())
get_user_permissions(role) ==
    IF role \in UserRole THEN ROLE_PERMISSIONS[role] ELSE {}

has_permission(user_role, required_permission) ==
    required_permission \in get_user_permissions(user_role)

can_modify_user(modifier_role, target_user_role) ==
    IF modifier_role = "super_admin" THEN TRUE
    ELSE IF modifier_role = "content_moderator"
    THEN RoleLevel(modifier_role) > RoleLevel(target_user_role)
    ELSE FALSE

\* The ids in the path of a request: those with a profile, and one without.
TargetIds == DOMAIN InitialProfiles \cup {"x9"}

\* The values of 'role' in the body of a request; "owner" is no role.
NewRoles == {"user", "super_admin", "owner"}

\* The status of a request that has no response yet.
Pending == 0

\* Two requests PUT /users/<user_id>/role arrive; each has the bearer token
\* of a user with a profile, or none.
RoleRequests ==
    /\ fn.name = "none"
    /\ \E actor \in [Runs -> DOMAIN InitialProfiles],
          target \in [Runs -> TargetIds],
          role \in [Runs -> NewRoles],
          bearer \in [Runs -> BOOLEAN] :
          fn' = [name |-> "role_requests",
                 frames |-> [r \in Runs |->
                     [at |-> "admin_required", bearer |-> bearer[r],
                      token_user_id |-> actor[r], user_id |-> target[r],
                      new_role |-> role[r], g_user_role |-> NoneV,
                      status |-> Pending, wrote |-> FALSE]]]
    /\ UNCHANGED <<runVars, storeVars>>

\* The response of run r, which ends its request.
Respond(r, status) ==
    [fn EXCEPT !.frames[r].at = "done", !.frames[r].status = status]

\* admin_required(required_permission=MODIFY_USER_ROLE), lines 26-111: the
\* token, the profile of its user as the store has it now, the permission.
AdminRequired(r) ==
    /\ fn.name = "role_requests"
    /\ fn.frames[r].at = "admin_required"
    /\ LET f == fn.frames[r]
           user_role == profiles[f.token_user_id]
       IN  fn' = IF ~f.bearer THEN Respond(r, 401)
                 ELSE IF ~has_permission(user_role, "modify_user_role")
                 THEN Respond(r, 403)
                 ELSE [fn EXCEPT !.frames[r].at = "route",
                                 !.frames[r].g_user_role = user_role]
    /\ UNCHANGED <<runVars, storeVars>>

\* update_user_role_route, lines 127-153: the role asked for, the refusal
\* of one's own id, the role of the target as the store has it now, and
\* can_modify_user. Without a profile of the target the request ends with
\* 404 or, when .single() raises, with 500.
UpdateUserRoleRoute(r) ==
    /\ fn.name = "role_requests"
    /\ fn.frames[r].at = "route"
    /\ LET f == fn.frames[r]
       IN  IF f.new_role \notin UserRole \/ f.user_id = f.token_user_id
           THEN fn' = Respond(r, 400)
           ELSE IF f.user_id \notin DOMAIN profiles
           THEN \E status \in {404, 500} : fn' = Respond(r, status)
           ELSE IF ~can_modify_user(f.g_user_role, profiles[f.user_id])
           THEN fn' = Respond(r, 403)
           ELSE fn' = [fn EXCEPT !.frames[r].at = "update_user_role"]
    /\ UNCHANGED <<runVars, storeVars>>

\* update_user_role(user_id, new_role), admin_service.py lines 168-192, and
\* the response of the route, lines 155-160.
UpdateUserRole(r) ==
    /\ fn.name = "role_requests"
    /\ fn.frames[r].at = "update_user_role"
    /\ LET f == fn.frames[r]
       IN  /\ profiles' = [profiles EXCEPT ![f.user_id] = f.new_role]
           /\ fn' = [fn EXCEPT !.frames[r].at = "done",
                               !.frames[r].status = 200,
                               !.frames[r].wrote = TRUE]
    /\ UNCHANGED <<runVars, videos, analyses, summaries, comments_table>>

\* Both requests have their response.
RoleRequestsDone ==
    /\ fn.name = "role_requests"
    /\ \A r \in Runs : fn.frames[r].at = "done"
    /\ fn' = [name |-> "none"]
    /\ UNCHANGED <<runVars, storeVars>>

NextAdmin ==
    \/ RoleRequests
    \/ \E r \in Runs : AdminRequired(r)
    \/ \E r \in Runs : UpdateUserRoleRoute(r)
    \/ \E r \in Runs : UpdateUserRole(r)
    \/ RoleRequestsDone

SpecAdmin == Init /\ [][NextAdmin]_vars

\* ---------------------------- supabase_service.py: save_comments_batch alone
\* Comments as fetch_video_comments hands them over, with the fields the
\* store keeps: one comment seen at two moments of its life, one without id,
\* one without text, one more complete comment.
StoreComments ==
    {[id |-> "c1", text_content |-> "t1", published_at |-> "P1", like_count |-> 0],
     [id |-> "c1", text_content |-> "t1", published_at |-> "P2", like_count |-> 1],
     [id |-> NoneV, text_content |-> "t3", published_at |-> "P1", like_count |-> 0],
     [id |-> "c3", text_content |-> "", published_at |-> "P1", like_count |-> 0],
     [id |-> "c2", text_content |-> "t2", published_at |-> "P1", like_count |-> 0]}

\* What the store may do with the upsert: take it, answer with an error
\* attribute, or make the client library raise.
CommentUpserts == {"ok", "error", "raise"}

\* The provider gives every comment of a video its own id.
DistinctIds(batch) ==
    \A i, j \in DOMAIN batch : batch[i].id = batch[j].id => i = j

\* comments_to_save
CommentsToSave(vid, batch, current_timestamp) ==
    LET valid == SelectSeq(batch, IsClassifiable)
    IN  [i \in DOMAIN valid |->
            [youtube_comment_id |-> valid[i].id, youtube_video_id |-> vid,
             text_content |-> valid[i].text_content,
             published_at |-> valid[i].published_at,
             like_count |-> valid[i].like_count,
             retrieved_at |-> current_timestamp]]

\* supabase.table('comments').upsert(rows): a row whose youtube_comment_id
\* is in the table replaces the stored row, the others are inserted.
Upsert(table, rows) ==
    [k \in DOMAIN table \cup {rows[i].youtube_comment_id : i \in DOMAIN rows} |->
        IF \E i \in DOMAIN rows : rows[i].youtube_comment_id = k
        THEN rows[CHOOSE i \in DOMAIN rows : rows[i].youtube_comment_id = k]
        ELSE table[k]]

\* A caller invokes save_comments_batch(video_id, comments).
SaveCommentsCall ==
    /\ fn.name = "none"
    /\ \E vid \in StoreVideoIds, batch \in SeqsUpTo(StoreComments, MaxComments),
          now \in Timestamps, client \in BOOLEAN, u \in CommentUpserts :
          /\ DistinctIds(batch)
          /\ fn' = [name |-> "save_comments_call", video_id |-> vid,
                    comments |-> batch, current_timestamp |-> now,
                    client |-> client, upsert |-> u,
                    table_at_call |-> comments_table]
    /\ UNCHANGED <<runVars, storeVars>>

\* Lines 90-137.
SaveCommentsRun ==
    /\ fn.name = "save_comments_call"
    /\ LET comments_to_save ==
               CommentsToSave(fn.video_id, fn.comments, fn.current_timestamp)
           Ret(value, raised) ==
               [name |-> "save_comments_ret", video_id |-> fn.video_id,
                comments |-> fn.comments,
                current_timestamp |-> fn.current_timestamp,
                client |-> fn.client, upsert |-> fn.upsert,
                table_at_call |-> fn.table_at_call,
                ret |-> value, raised |-> raised]
       IN  IF fn.comments = <<>>
           THEN fn' = Ret(TRUE, FALSE) /\ UNCHANGED comments_table
           ELSE IF get_supabase_client(fn.client) = "RuntimeError"
           THEN fn' = Ret(FALSE, TRUE) /\ UNCHANGED comments_table
           ELSE IF comments_to_save = <<>>
           THEN fn' = Ret(TRUE, FALSE) /\ UNCHANGED comments_table
           ELSE IF fn.upsert = "ok"
           THEN /\ fn' = Ret(TRUE, FALSE)
                /\ comments_table' = Upsert(comments_table, comments_to_save)
           ELSE fn' = Ret(FALSE, FALSE) /\ UNCHANGED comments_table
    /\ UNCHANGED <<runVars, videos, analyses, summaries, profiles>>

\* get_comments_by_date_for_video(video_id): a placeholder that reads nothing
\* from the store and hands back [] (RuntimeError when there is no client).
get_comments_by_date_for_video(vid, client) ==
    IF get_supabase_client(client) = "RuntimeError"
    THEN [raised |-> TRUE, ret |-> <<>>]
    ELSE [raised |-> FALSE, ret |-> <<>>]

\* Lines 146-149 and 159 of process_video_analysis: the value of
\* "commentsByDate" in final_response.
CommentsByDateCall ==
    /\ fn.name = "none"
    /\ \E vid \in StoreVideoIds, client \in BOOLEAN :
          fn' = [name |-> "by_date_call", video_id |-> vid, client |-> client]
    /\ UNCHANGED <<runVars, storeVars>>

CommentsByDateRun ==
    /\ fn.name = "by_date_call"
    /\ LET r == get_comments_by_date_for_video(fn.video_id, fn.client)
       IN  fn' = [name |-> "by_date_ret", video_id |-> fn.video_id,
                  client |-> fn.client, raised |-> r.raised,
                  commentsByDate |-> r.ret]
    /\ UNCHANGED <<runVars, storeVars>>

NextComments ==
    \/ SaveCommentsCall
    \/ SaveCommentsRun
    \/ CommentsByDateCall
    \/ CommentsByDateRun
    \/ FnReturn

SpecComments == Init /\ [][NextComments]_vars

\* ------------------------------ the pipeline run twice with the same input
\* The first run has handed back its result; the caller keeps what it passed
\* and what it got, and is about to call again.
ReturnAndKeep ==
    /\ pc = "done"
    /\ fn.name = "none"
    /\ fn' = [name |-> "process_video_analysis_ret", video_url |-> video_url,
              user_id |-> user_id, env |-> env, video_id |-> video_id,
              yt_comments_raw |-> yt_comments_raw, result |-> result]
    /\ pc' = "again"
    /\ video_url' = IdleUrl
    /\ user_id' = "u1"
    /\ env' = IdleEnv
    /\ video_id' = NoId
    /\ video_details' = NoDetails
    /\ yt_comments_raw' = NoComments
    /\ stages' = <<>>
    /\ calls' = <<>>
    /\ result' = NoResult
    /\ UNCHANGED storeVars

\* The caller invokes process_video_analysis with the same arguments, and
\* the collaborators answer as they did.
StartAgain ==
    /\ pc = "again"
    /\ video_url' = fn.video_url
    /\ user_id' = fn.user_id
    /\ env' = fn.env
    /\ pc' = "ResolveId"
    /\ UNCHANGED <<video_id, video_details, yt_comments_raw, stages, calls,
                   result, storeVars, fn>>

\* The second run has handed back its result; both frames are gone.
ReturnAgain ==
    /\ pc = "done"
    /\ fn.name = "process_video_analysis_ret"
    /\ fn' = [name |-> "none"]
    /\ pc' = "idle"
    /\ video_url' = IdleUrl
    /\ user_id' = "u1"
    /\ env' = IdleEnv
    /\ video_id' = NoId
    /\ video_details' = NoDetails
    /\ yt_comments_raw' = NoComments
    /\ stages' = <<>>
    /\ calls' = <<>>
    /\ result' = NoResult
    /\ UNCHANGED storeVars

NextTwice ==
    \/ Start
    \/ ResolveId
    \/ FetchMetadata
    \/ FetchComments
    \/ PersistVideoAndComments
    \/ ReturnAndKeep
    \/ StartAgain
    \/ ReturnAgain

SpecTwice == Init /\ [][NextTwice]_vars

\* ------------------------------------------------------------ the claims
\* What the collaborators of the current run are set to do.
IdResolves == extract_video_id(video_url) # NoId

MetadataFails == ~env.yt_client \/ env.details \in {"no_items", "raise"}

CommentsFailOtherwise == ~env.yt_client \/ env.comments = "raise_other"

\* The list fetch_video_comments hands back when it succeeds.
FetchedComments ==
    IF env.comments = "items"
    THEN [i \in DOMAIN env.items |-> CommentOfItem(env.items[i])] ELSE <<>>

FetchesSucceed ==
    /\ IdResolves
    /\ ~MetadataFails
    /\ ~CommentsFailOtherwise

AICalls == {i \in DOMAIN calls : calls[i].to = "openai"}

StageIndex(st) == CHOOSE i \in DOMAIN StageOrder : StageOrder[i] = st

Aborted == result.kind \in {"error", "raised"}

\* C1: in a run whose fetches and video upsert are served and whose classifier
\* request fails, the run returns the AI-service error with status 503, no
\* analysis header and no category summary is in the store, and the video
\* record of the run is.
C1_ClassifierFailureReturns503 ==
    (/\ pc = "done"
     /\ FetchesSucceed
     /\ CommentsForOpenAI(FetchedComments) # <<>>
     /\ env.store = "ok"
     /\ env.classify = "fails")
    => /\ result = ErrorResult("AI sentiment classification failed.", 503)
       /\ analyses = <<>>
       /\ summaries = <<>>
       /\ video_id \in DOMAIN videos

\* C2: a run on an input from which extract_video_id yields no identifier
\* returns the invalid-input error with status 400 and sends no request to the
\* video provider, the language-model provider or the store.
C2_InvalidInputNoIO ==
    (pc # "idle" /\ ~IdResolves)
    => /\ calls = <<>>
       /\ pc = "done" => result = ErrorResult("Invalid YouTube video URL provided.", 400)

C2_Witness ==
    /\ pc = "done"
    /\ ~IdResolves
    /\ result.kind = "error"
    /\ result.status_code = 400
    /\ calls = <<>>

\* C3: a run whose metadata fetch fails, or whose comment fetch fails for a
\* reason other than comments being disabled, returns an error with status
\* 502, which is neither 400 nor 503.
C3_UpstreamFailureReturns502 ==
    (pc = "done" /\ IdResolves /\ (MetadataFails \/ CommentsFailOtherwise))
    => /\ result.kind = "error"
       /\ result.status_code = 502
       /\ result.status_code \notin {400, 503}

C3_Witness ==
    /\ pc = "done"
    /\ IdResolves
    /\ ~MetadataFails
    /\ env.comments = "raise_other"
    /\ Len(calls) = 2
    /\ result = ErrorResult("Could not fetch comments from YouTube.", 502)

\* C4: a run that ends in the PersistVideoAndComments stage, the video record
\* not persisted, returns the storage error with status 500 and has sent no
\* request to the language-model provider.
C4_VideoPersistFailureReturns500 ==
    (/\ pc = "done"
     /\ stages # <<>>
     /\ stages[Len(stages)] = "PersistVideoAndComments"
     /\ video_id \notin DOMAIN videos)
    => /\ result = ErrorResult("Database error while saving video information.", 500)
       /\ AICalls = {}

\* C5: in a run whose earlier stages are served and whose analysis insert
\* fails, the run returns the storage error with status 500.
C5_AnalysisPersistFailureReturns500 ==
    (/\ pc = "done"
     /\ FetchesSucceed
     /\ env.classify = "ok"
     /\ env.store = "analysis_fails")
    => result = ErrorResult("Database error while saving analysis results.", 500)

\* C6: in a run in which only summary requests fail, whatever the set of
\* categories they fail for, the run returns a success result and no error;
\* in it a category that has comments and whose request failed carries the
\* 'could not generate summary' text, and no other category does.
C6_SummaryFailureIsNotAnError ==
    (/\ pc = "done"
     /\ FetchesSucceed
     /\ CommentsForOpenAI(FetchedComments) # <<>>
     /\ env.store = "ok"
     /\ env.classify = "ok"
     /\ env.summarize_fail # {})
    => /\ result.kind = "success"
       /\ \A i \in DOMAIN result.sentimentBreakdown :
             LET b == result.sentimentBreakdown[i] IN
             (b.summary = CouldNotGenerateSummary(b.category))
                <=> (b.count > 0 /\ b.category \in env.summarize_fail)

\* C7: a run whose comment fetch yields the empty list (comments disabled)
\* succeeds with totalCommentsAnalyzed = 0, every category with count 0 and
\* the 'no comments' summary, and sends no request to the language-model
\* provider.
C7_CommentsDisabledSucceeds ==
    (/\ pc = "done"
     /\ video_details.ok
     /\ env.comments = "raise_disabled"
     /\ yt_comments_raw = [ok |-> TRUE, list |-> <<>>]
     /\ env.store = "ok")
    => /\ result.kind = "success"
       /\ result.totalCommentsAnalyzed = 0
       /\ result.sentimentBreakdown =
             [i \in DOMAIN SENTIMENT_CATEGORIES |->
                 [category |-> SENTIMENT_CATEGORIES[i], count |-> 0,
                  summary |-> NoCommentsSummary(SENTIMENT_CATEGORIES[i])]]
       /\ AICalls = {}

\* C8: the stages of a run are entered in the order of StageOrder, none
\* skipped; a stage is entered only while no failure has been returned or
\* raised; every request is sent by a stage that was entered, in stage order;
\* and once the run has failed no request is sent and the store is not
\* written.
C8_StagesInOrderFailFast ==
    /\ [](/\ IsPrefix(stages, StageOrder)
          /\ pc \in Range(StageOrder)
                => result = NoResult /\ Len(stages) = StageIndex(pc) - 1
          /\ Aborted => pc = "done"
          /\ \A i \in DOMAIN calls : calls[i].stage \in Range(stages)
          /\ \A i, j \in DOMAIN calls :
                i < j => StageIndex(calls[i].stage) <= StageIndex(calls[j].stage))
    /\ [][Aborted => (pc' = "idle" /\ UNCHANGED storeVars)]_vars

C8_Witness ==
    /\ pc = "done"
    /\ stages = <<"ResolveId", "FetchMetadata", "FetchComments">>
    /\ Len(calls) = 2
    /\ result.kind = "error"
    /\ result.status_code = 502

\* C9: every run ends by returning a success result or an error value with a
\* message and a status code among 400, 502, 500 and 503; no exception leaves
\* process_video_analysis.
C9_NoExceptionEscapes ==
    pc = "done"
    => \/ result.kind = "success"
       \/ /\ result.kind = "error"
          /\ result.error # ""
          /\ result.status_code \in {400, 502, 500, 503}

\* C10: whatever list the classifier returns, the four per-category counts
\* add up to total_comments_analyzed.
C10_CountsSumToTotal ==
    fn.name = "group_ret"
    => SumSeq(fn.counts) = fn.total_comments_for_analysis

\* C11: of a batch of N comments that passed the id/text filter, the grouping
\* step places at most N members in the four category buckets, whatever list
\* of entries the classifier returns.
C11_GroupedAtMostBatchSize ==
    fn.name = "group_ret"
    => SumSeq(fn.counts) <= fn.total_comments_for_analysis

\* C12: the sentimentBreakdown built for a run that succeeds has exactly four
\* entries, one per category, in the order Positive, Neutral, Critical, Toxic,
\* whichever categories hold a grouped comment.
C12_BreakdownHasFourEntriesInOrder ==
    (fn.name = "summaries_ret" /\ ~fn.raised)
    => /\ Len(fn.sentiment_breakdown_for_db) = 4
       /\ fn.sentiment_breakdown_for_db[1].category = "Positive"
       /\ fn.sentiment_breakdown_for_db[2].category = "Neutral"
       /\ fn.sentiment_breakdown_for_db[3].category = "Critical"
       /\ fn.sentiment_breakdown_for_db[4].category = "Toxic"

\* The classifier produced Toxic only, and the breakdown still has its four
\* entries.
C12_Witness ==
    /\ fn.name = "summaries_ret"
    /\ ~fn.raised
    /\ fn.by_category["Toxic"] # <<>>
    /\ \A cat \in Categories \ {"Toxic"} : fn.by_category[cat] = <<>>
    /\ Len(fn.sentiment_breakdown_for_db) = 4
    /\ fn.sentiment_breakdown_for_db[4].count = Len(fn.by_category["Toxic"])

\* The summary rows that belong to a header row.
SummariesOf(analysis_id) ==
    {i \in DOMAIN summaries : summaries[i].analysis_id = analysis_id}

\* C13: whenever no call of save_analysis_results is under way, calls with a
\* failing store operation included, every Analysis header row has exactly
\* four CategorySummary rows, named Positive, Neutral, Critical and Toxic.
C13_EveryHeaderHasFourSummaries ==
    fn.name \in {"none", "save_analysis_ret"}
    => \A a \in DOMAIN analyses :
        /\ Cardinality(SummariesOf(analyses[a].analysis_id)) = 4
        /\ {summaries[i].category_name : i \in SummariesOf(analyses[a].analysis_id)}
               = {"Positive", "Neutral", "Critical", "Toxic"}

\* C14: a call of save_analysis_results creates one header row when it hands
\* back an analysis id (the run goes on to its success result) and none when
\* it hands back None (the run returns an error), so that the header rows
\* are as many as the runs that succeeded.
C14_HeaderOnlyForSuccess ==
    fn.name = "save_analysis_ret"
    => Len(analyses) - fn.analyses_at_call
           = IF fn.analysis_id # NoAnalysisId /\ ~fn.raised THEN 1 ELSE 0

\* The fetched comments that have an id and a text, both non-empty.
WithIdAndText(raw) ==
    {i \in DOMAIN raw : /\ raw[i].id \notin {NoneV, ""}
                        /\ raw[i].text_content \notin {NoneV, ""}}

\* C15: total_comments_analyzed is the number of fetched comments that have
\* both a non-empty id and a non-empty text; the others are left out of the
\* classifier's input and of the count, and the block still completes.
C15_TotalCountsCommentsWithIdAndText ==
    fn.name = "group_ret"
    => /\ fn.total_comments_for_analysis = Cardinality(WithIdAndText(fn.raw))
       /\ \A i \in DOMAIN fn.comments_for_openai :
              /\ fn.comments_for_openai[i].id \notin {NoneV, ""}
              /\ fn.comments_for_openai[i].text_content \notin {NoneV, ""}
       /\ \A i \in WithIdAndText(fn.raw) :
              fn.raw[i] \in Range(fn.comments_for_openai)

\* A comment without id is fetched next to a complete one; one is counted.
C15_Witness ==
    /\ fn.name = "group_ret"
    /\ Len(fn.raw) = 2
    /\ fn.raw[1].id = NoneV
    /\ fn.raw[2].id = "c1"
    /\ fn.total_comments_for_analysis = 1
    /\ Len(fn.comments_for_openai) = 1

\* The returned entries that name a comment of the batch and whose category
\* is in cats.
EntriesOfBatchIn(cats) ==
    {i \in DOMAIN fn.returned :
        /\ fn.returned[i].category \in cats
        /\ \E j \in DOMAIN fn.comments_for_openai :
               fn.comments_for_openai[j].id = fn.returned[i].id}

\* C16: an entry whose category is missing or is not one of Positive,
\* Neutral, Critical, Toxic has its comment counted under Neutral, and the
\* block completes: the Neutral count is the number of such entries plus the
\* entries that say Neutral.
C16_UnknownCategoryCountsAsNeutral ==
    (fn.name = "group_ret" /\ fn.comments_for_openai # <<>>)
    => fn.counts[2] =
           Cardinality(EntriesOfBatchIn({"Neutral"}))
           + Cardinality(EntriesOfBatchIn(
                 {fn.returned[i].category : i \in DOMAIN fn.returned}
                     \ {"Positive", "Neutral", "Critical", "Toxic"}))

\* One entry with a category outside the four and one without category, for
\* the two comments of the batch: both are counted under Neutral.
C16_Witness ==
    /\ fn.name = "group_ret"
    /\ Len(fn.comments_for_openai) = 2
    /\ Len(fn.returned) = 2
    /\ fn.returned[1] = [id |-> "c1", category |-> "Mixed"]
    /\ fn.returned[2] = [id |-> "c2", category |-> Absent]
    /\ fn.counts = <<0, 2, 0, 0>>

\* C17: classify_comment_sentiments_batch hands back an empty list and sends
\* no request to the provider when its input is empty or holds no comment
\* with both id and text, and it never sends more than one request.
C17_NothingToClassifyNoProviderCall ==
    fn.name = "classify_ret"
    => /\ fn.requests <= 1
       /\ WithIdAndText(fn.comments) = {}
          => /\ ~fn.raised
             /\ fn.ret = [ok |-> TRUE, list |-> <<>>]
             /\ fn.requests = 0

\* The summarizer requests of the block that are about one category.
RequestsFor(cat) ==
    {i \in DOMAIN fn.requests : fn.requests[i].category = cat}

\* C18: the summaries block sends the summarizer's provider exactly one
\* request for each category that holds a grouped comment, whatever the
\* answer (none is sent again), and none for a category without comment,
\* which gets the fixed message; at most four requests in all.
C18_OneSummaryRequestPerNonEmptyCategory ==
    fn.name = "summaries_ret"
    => /\ ~fn.raised
       /\ Len(fn.requests) <= 4
       /\ \A i \in DOMAIN SENTIMENT_CATEGORIES :
              LET cat == SENTIMENT_CATEGORIES[i]
              IN  IF fn.by_category[cat] # <<>>
                  THEN Cardinality(RequestsFor(cat)) = 1
                  ELSE /\ RequestsFor(cat) = {}
                       /\ fn.sentiment_breakdown_for_db[i].summary
                              = [text |-> "No comments found for this video.",
                                 category |-> cat]

\* Positive holds comments and its request fails, Toxic holds comments and
\* gets a summary, the other two hold none: two requests were sent.
C18_Witness ==
    /\ fn.name = "summaries_ret"
    /\ fn.by_category["Positive"] # <<>>
    /\ fn.by_category["Toxic"] # <<>>
    /\ fn.by_category["Neutral"] = <<>>
    /\ fn.by_category["Critical"] = <<>>
    /\ fn.answers["Positive"] = "raise"
    /\ fn.answers["Toxic"] = "text"
    /\ Len(fn.requests) = 2
    /\ fn.sentiment_breakdown_for_db[1].summary
           = [text |-> "Could not generate summary for comments.",
              category |-> "Positive"]

\* get_or_create_video has found the row and its update was taken.
VideoUpdated ==
    fn.name = "video_ret" /\ fn.existing.ok /\ fn.write = "ok" /\ ~fn.raised

\* C20: when get_or_create_video updates an existing Video record, a title
\* or channel title that is not null in the store is not replaced by null
\* when the new value is missing (a new value that is there is written), and
\* the retrieval timestamp becomes the current time.
C20_UpdateCoalescesAndRefreshes ==
    VideoUpdated
    => LET old == fn.existing
           new == videos[fn.video_id]
       IN  /\ old.video_title # NoneV => new.video_title # NoneV
           /\ old.channel_title # NoneV => new.channel_title # NoneV
           /\ fn.video_title = NoneV => new.video_title = old.video_title
           /\ fn.channel_title = NoneV => new.channel_title = old.channel_title
           /\ fn.video_title # NoneV => new.video_title = fn.video_title
           /\ fn.channel_title # NoneV => new.channel_title = fn.channel_title
           /\ new.last_cached_comment_retrieval_timestamp = fn.current_timestamp
           /\ fn.ret = new

\* A record with title "A" retrieved at T1 is updated at T2 by a call whose
\* title is missing: the title stays, the timestamp moves.
C20_Witness ==
    /\ VideoUpdated
    /\ fn.existing.video_title = "A"
    /\ fn.existing.last_cached_comment_retrieval_timestamp = "T1"
    /\ fn.video_title = NoneV
    /\ fn.current_timestamp = "T2"
    /\ videos[fn.video_id].video_title = "A"
    /\ videos[fn.video_id].last_cached_comment_retrieval_timestamp = "T2"

\* The second of two runs on the same video has ended, both runs having
\* fetched the video's details and the same comments, with the store
\* answering.
SecondRunEnded ==
    /\ pc = "done"
    /\ fn.name = "process_video_analysis_ret"
    /\ fn.video_id = video_id
    /\ fn.yt_comments_raw = yt_comments_raw
    /\ FetchesSucceed
    /\ env.store = "ok"

\* C19: two runs of the pipeline, one after the other, on the same video
\* with the same fetched comments leave exactly one Video record for the
\* video's id and one Comment row for each fetched comment that has an id
\* and a text.
C19_TwoRunsLeaveOneVideoRecord ==
    SecondRunEnded
    => /\ Cardinality({v \in DOMAIN videos : v = video_id}) = 1
       /\ \A i \in WithIdAndText(yt_comments_raw.list) :
              Cardinality({c \in DOMAIN comments_table :
                              c = yt_comments_raw.list[i].id}) = 1

\* The comments of the batch that were saved over a stored row.
SavedAgain ==
    {i \in DOMAIN fn.comments :
        /\ fn.comments[i].id \notin {NoneV, ""}
        /\ fn.comments[i].text_content \notin {NoneV, ""}
        /\ fn.comments[i].id \in DOMAIN fn.table_at_call}

\* C21: when save_comments_batch saves a comment whose id is already in the
\* store, the stored like count and retrieved-at become the new values and
\* the stored published-at stays what it was, whatever the new fetch carries.
C21_ResaveKeepsPublishedAt ==
    (fn.name = "save_comments_ret" /\ fn.ret /\ ~fn.raised)
    => \A i \in SavedAgain :
          LET old == fn.table_at_call[fn.comments[i].id]
              new == comments_table[fn.comments[i].id]
          IN  /\ new.like_count = fn.comments[i].like_count
              /\ new.retrieved_at = fn.current_timestamp
              /\ new.published_at = old.published_at

\* The header rows that carry an identifier.
HeadersWithId(analysis_id) ==
    {a \in DOMAIN analyses : analyses[a].analysis_id = analysis_id}

OwnedByCaller ==
    \E a \in DOMAIN analyses : /\ analyses[a].analysis_id = fn.analysis_id
                               /\ analyses[a].user_id = fn.user_id

OwnedByAnother ==
    \E a \in DOMAIN analyses : /\ analyses[a].analysis_id = fn.analysis_id
                               /\ analyses[a].user_id # fn.user_id

\* An identifier no analysis has.
UnknownAnalysisId == Len(analyses) + 1

\* C23: get_analysis_detail_by_id hands back the analysis only when it exists
\* and is owned by the user; for an analysis of another user it hands back
\* what it hands back, in the same store, for an identifier that does not
\* exist, which is None.
C23_DetailOnlyForOwner ==
    fn.name = "detail_ret"
    => /\ fn.ret.ok => (OwnedByCaller
                         /\ fn.ret.analysis[1].analysis_id = fn.analysis_id
                         /\ fn.ret.analysis[1].user_id = fn.user_id)
       /\ (OwnedByCaller /\ fn.client /\ fn.select = "ok") => fn.ret.ok
       /\ OwnedByAnother
          => /\ fn.ret = NoDetail
             /\ [raised |-> fn.raised, ret |-> fn.ret]
                    = get_analysis_detail_by_id(UnknownAnalysisId, fn.user_id,
                                                fn.client, fn.select)

\* u2 asks for the analysis of u1, the store answering: None comes back.
C23_Witness ==
    /\ fn.name = "detail_ret"
    /\ fn.user_id = "u2"
    /\ fn.client
    /\ fn.select = "ok"
    /\ \E a \in DOMAIN analyses : /\ analyses[a].analysis_id = fn.analysis_id
                                   /\ analyses[a].user_id = "u1"
    /\ fn.ret = NoDetail
    /\ ~fn.raised

\* C24: in a run whose fetches are served, that has comments to save, whose
\* comment upsert fails and whose other collaborators answer, the run is not
\* aborted: it returns a success result.
C24_CommentSaveFailureDoesNotAbort ==
    (/\ pc = "done"
     /\ FetchesSucceed
     /\ yt_comments_raw.list # <<>>
     /\ env.store = "comments_fail"
     /\ env.classify = "ok"
     /\ env.summarize_fail = {})
    => result.kind = "success"

\* C25: for every input, extract_video_id hands back an identifier of exactly
\* 11 characters of the class [A-Za-z0-9_-] or no identifier, on the pattern
\* path and on the fallback path alike.
C25_IdHasElevenClassCharacters ==
    fn.name = "extract_ret"
    => \/ fn.ret = NoId
       \/ /\ Len(fn.ret) = 11
          /\ \A i \in DOMAIN fn.ret : fn.ret[i] \in {"a", "b"}

\* The day a comment was published on, as a number of days.
DayOf(published_at) == IF published_at = "P1" THEN 1 ELSE 2

\* The saved comments of the video commentsByDate was asked for.
SavedCommentsOf(vid) ==
    {k \in DOMAIN comments_table : comments_table[k].youtube_video_id = vid}

\* C26: commentsByDate lists, in ascending date order, one entry for each
\* publish date of the video's saved comments, its count being the number of
\* comments published on that date.
C26_CommentsByDateAggregates ==
    (fn.name = "by_date_ret" /\ ~fn.raised)
    => LET saved == SavedCommentsOf(fn.video_id)
           days == {DayOf(comments_table[k].published_at) : k \in saved}
           list == fn.commentsByDate
       IN  /\ Len(list) = Cardinality(days)
           /\ \A d \in days :
                  \E i \in DOMAIN list :
                      /\ list[i].date = d
                      /\ list[i].count =
                             Cardinality({k \in saved :
                                 DayOf(comments_table[k].published_at) = d})
           /\ \A i, j \in DOMAIN list : i < j => list[i].date < list[j].date

\* Each of the two runs did its existence check before the other's insert,
\* and both calls have ended.
BothCheckedFirst ==
    /\ fn.name = "race"
    /\ \A r \in Runs : fn.frames[r].at = "ret" /\ ~fn.frames[r].existing.ok

\* C27: when two runs for the same unseen video interleave their
\* get_or_create_video steps, each checking before the other inserts, the
\* collection holds at most one record for the video and neither call fails
\* because of the other.
C27_InterleavedCallsBothSucceed ==
    BothCheckedFirst
    => /\ Cardinality({v \in DOMAIN videos : v = fn.video_id}) <= 1
       /\ \A r \in Runs : fn.frames[r].ret.ok

\* The header row stored under the analysis id of the result.
StoredHeader ==
    SelectSeq(analyses,
              LAMBDA row : row.analysis_id = fn.final_response.analysisId)

\* The category rows stored under the analysis id of the result, as
\* entries of a breakdown.
StoredBreakdown ==
    LET rows == SelectSeq(summaries,
                    LAMBDA row : row.analysis_id = fn.final_response.analysisId)
    IN  [i \in DOMAIN rows |->
            [category |-> rows[i].category_name,
             count |-> rows[i].comment_count_in_category,
             summary |-> rows[i].summary_text]]

\* C28: the values of the result of a successful run are the stored ones:
\* analysisTimestamp is the analysis_timestamp of the header row,
\* totalCommentsAnalyzed its total, and each sentimentBreakdown entry is the
\* stored category row.
C28_ResultEqualsStored ==
    fn.name = "response_ret"
    => /\ Len(StoredHeader) = 1
       /\ fn.final_response.analysisTimestamp
              = StoredHeader[1].analysis_timestamp
       /\ fn.final_response.totalCommentsAnalyzed
              = StoredHeader[1].total_comments_analyzed
       /\ fn.final_response.sentimentBreakdown = StoredBreakdown

\* Some profile has the role super_admin.
SomeSuperAdmin == \E id \in DOMAIN profiles : profiles[id] = "super_admin"

\* No request has written the role of the user whose token it carried.
NoOwnRoleChanged ==
    fn.name = "role_requests"
    => \A r \in Runs :
          fn.frames[r].wrote => fn.frames[r].user_id # fn.frames[r].token_user_id

\* C29: from a state with a super_admin profile, after any role-update
\* requests, interleaved ones of different admins included, some profile
\* still has the role super_admin, and no request changes the role of the
\* user who issued it.
C29_SuperAdminRemains == SomeSuperAdmin /\ NoOwnRoleChanged

\* The three shapes of the provider's answer that carry a list of
\* classifications.
AcceptedShapes == {"result", "classifications", "root_list"}

\* classify_comment_sentiments_batch has sent its request and handed back
\* its value.
ClassifyAnswered ==
    /\ fn.name = "classify_ret"
    /\ fn.requests = 1

\* C30: classify_comment_sentiments_batch returns the list of an answer of
\* each of the three shapes (an object with a 'result' list, an object with
\* a 'classifications' list, an array at the root), and None only for the
\* other answers.
C30_ThreeShapesAccepted ==
    ClassifyAnswered
    => IF fn.answer \in AcceptedShapes
       THEN fn.ret = [ok |-> TRUE, list |-> fn.list]
       ELSE fn.ret = NoClassification

====
